---- MODULE Spec2Model ----
(***************************************************************************)
(* Model of the quota polling engine of antigravity-quota-management:      *)
(* QuotaService (src/src/services/QuotaService.ts), with manualRefresh     *)
(* taken from QuotaProvider (src/src/extension.ts).                        *)
(*                                                                         *)
(* Time is counted in units of 500 ms, so that the clock can stand        *)
(* strictly between two ticks of the 1000 ms polling timer.  A            *)
(* remainingFraction is an integer number of thousandths (196 = 0.196).   *)
(* The body of an async function between two awaits runs atomically (the  *)
(* JavaScript event loop); every await is a separate step.                 *)
(***************************************************************************)
EXTENDS Integers, Sequences, FiniteSets, TLC

VARIABLES
    now,               \* Date.now(), in units of 500 ms
    config,            \* the antigravityQuotas configuration section
    cachedModels,      \* QuotaService.cachedModels
    refreshInterval,   \* QuotaService.refreshInterval (time units)
    lowQuotaThreshold, \* QuotaService.lowQuotaThreshold (percent)
    nextFetchTime,     \* QuotaService.nextFetchTime
    isRefreshing,      \* QuotaService.isRefreshing
    lastError,         \* QuotaService.lastError
    notifiedGroups,    \* QuotaService.notifiedGroups
    tasks,             \* the invocations of refresh() and where each one stands
    op,                \* the handler that ran in the last step
    fired,             \* number of _onDidUpdate.fire() calls in the last step
    warned,            \* groups for which showWarningMessage was called in the last step
    issued,            \* the external call the last step started
    received,          \* the response body the last step read, if it read one
    candidate,         \* index of the candidate whose answer the last step handled
    unrecovered,       \* groups warned about and not seen above the threshold since
    horizon,           \* where the clock of the model stops
    items,             \* StatusBarManager.items, in insertion order
    finder,            \* the invocation of findLanguageServerPorts() and where it stands
    history,           \* what the refreshes so far did, for the statements over time
    menu               \* the modelNicknames setting, the open input box and the writes under way

vars == <<now, config, cachedModels, refreshInterval, lowQuotaThreshold,
          nextFetchTime, isRefreshing, lastError, notifiedGroups, tasks,
          op, fired, warned, issued, received, candidate, unrecovered,
          horizon, items, finder, history, menu>>

engine == <<cachedModels, lastError, nextFetchTime, notifiedGroups, isRefreshing>>

----------------------------------------------------------------------------
(* Bounds of the model *)

MaxTime == 5       \* the clock stops here
MaxTasks == 2      \* refresh() invocations that can be in flight in the model
MaxPorts == 2      \* candidates one discovery can return

(* Program constants, in time units of 500 ms *)

UnitsPerSecond == 2        \* "* 1000" of updateConfig
FAST_TIMER == 2            \* setInterval(() => this.poll(), 1000)
RETRY_DELAY == 60          \* Date.now() + 30000

----------------------------------------------------------------------------
(* Strings are sequences of one-character strings *)

ToLowerChar(c) ==
    CASE c = "F" -> "f"
      [] c = "P" -> "p"
      [] c = "A" -> "a"
      [] OTHER -> c

toLowerCase(s) == [i \in 1..Len(s) |-> ToLowerChar(s[i])]

includes(s, p) ==
    \E i \in 0..(Len(s) - Len(p)) : SubSeq(s, i + 1, i + Len(p)) = p

Math_round10(x) == (x + 5) \div 10   \* Math.round(x / 10) for x >= 0

----------------------------------------------------------------------------
(* Inputs *)

Model(l, f) == [label |-> l, quotaInfo |-> [remainingFraction |-> f]]
ModelNoQuota(l) == [label |-> l]
ModelNoLabel(f) == [quotaInfo |-> [remainingFraction |-> f]]

FlashLabel == <<"F", "a">>
ProLabel == <<"a", "p">>

\* the lists of models a response can carry
ModelLists ==
    { <<Model(FlashLabel, 196)>>,
      <<Model(FlashLabel, 204)>>,
      <<Model(FlashLabel, 900)>>,
      <<ModelNoQuota(FlashLabel), Model(ProLabel, 50)>>,
      <<ModelNoLabel(50)>> }

Envelope(list) ==
    [userStatus |-> [cascadeModelConfigData |-> [clientModelConfigs |-> list]]]

\* a JSON body without the nested path
NoPathBody == [userStatus |-> [other |-> 0]]

\* the JSON text null
NullBody == [null |-> TRUE]

Bodies == { Envelope(list) : list \in ModelLists } \cup { NoPathBody, NullBody }

NoResponse == [none |-> TRUE]

\* a body without userStatus rejected as well
readThrows_Strict(data) ==
    \/ data = NullBody
    \/ "userStatus" \notin DOMAIN data
    \/ "cascadeModelConfigData" \notin DOMAIN data.userStatus

\* data.userStatus with data null: a TypeError, caught by the inner try
readThrows(data) == data = NullBody

\* data.userStatus?.cascadeModelConfigData?.clientModelConfigs || []
clientModelConfigs(data) ==
    IF /\ "userStatus" \in DOMAIN data
       /\ "cascadeModelConfigData" \in DOMAIN data.userStatus
       /\ "clientModelConfigs" \in DOMAIN data.userStatus.cascadeModelConfigData
    THEN data.userStatus.cascadeModelConfigData.clientModelConfigs
    ELSE <<>>

FlashGroup == [name |-> "Flash", patterns |-> << <<"f">> >>]
ProGroup == [name |-> "Pro", patterns |-> << <<"x">>, <<"P">> >>]

Settings(i, t, g) == [refreshInterval |-> i, lowQuotaThreshold |-> t, groups |-> g]

\* the settings the user switches between: refreshInterval in seconds,
\* lowQuotaThreshold in percent, and the groups
Configs ==
    { Settings(1, 20, <<FlashGroup, ProGroup>>),
      Settings(2, 20, <<FlashGroup, ProGroup>>),
      Settings(1, 50, <<FlashGroup, ProGroup>>),
      Settings(1, 20, <<ProGroup>>) }

PortLists == { [i \in 1..n |-> i] : n \in 0..MaxPorts }

GroupNames == {"Flash", "Pro"}

----------------------------------------------------------------------------
(* checkLowQuota *)

matches(m, patterns) ==
    \E k \in 1..Len(patterns) : includes(toLowerCase(m.label), toLowerCase(patterns[k]))

\* m.label.toLowerCase() with m.label undefined: a TypeError
filterThrows(models, patterns) ==
    /\ patterns # <<>>
    /\ \E k \in 1..Len(models) : "label" \notin DOMAIN models[k]

groupModels(models, patterns) == SelectSeq(models, LAMBDA m : matches(m, patterns))

\* a missing fraction read as 0
fractionOf_Zero(m) ==
    IF "quotaInfo" \in DOMAIN m /\ "remainingFraction" \in DOMAIN m.quotaInfo
    THEN m.quotaInfo.remainingFraction
    ELSE 0

\* quotaInfo?.remainingFraction ?? 1
fractionOf(m) ==
    IF "quotaInfo" \in DOMAIN m /\ "remainingFraction" \in DOMAIN m.quotaInfo
    THEN m.quotaInfo.remainingFraction
    ELSE 1000

\* <= in place of <: of two records with the least fraction the later one wins
RECURSIVE reduceWorst_LastOnTie(_, _, _)
reduceWorst_LastOnTie(ms, i, prev) ==
    IF i > Len(ms) THEN prev
    ELSE reduceWorst_LastOnTie(ms, i + 1,
                               IF fractionOf(ms[i]) <= fractionOf(prev) THEN ms[i] ELSE prev)

RECURSIVE reduceWorst(_, _, _)
reduceWorst(ms, i, prev) ==
    IF i > Len(ms) THEN prev
    ELSE reduceWorst(ms, i + 1, IF fractionOf(ms[i]) < fractionOf(prev) THEN ms[i] ELSE prev)

worstModel(ms) == reduceWorst(ms, 2, ms[1])

\* the percentage rounded before it is compared, as the status bar rounds it
isLow_Rounded(fraction, threshold) == Math_round10(fraction) <= threshold

\* remaining <= this.lowQuotaThreshold, remaining = fraction * 100
isLow(fraction, threshold) == fraction <= threshold * 10

RECURSIVE checkGroups(_, _, _, _, _)
checkGroups(models, groups, threshold, i, st) ==
    IF i > Len(groups) THEN st
    ELSE
      LET name == groups[i].name
          patterns == groups[i].patterns
      IN  IF filterThrows(models, patterns) THEN [st EXCEPT !.threw = TRUE]
          ELSE
            LET gm == groupModels(models, patterns) IN
            IF gm = <<>> THEN checkGroups(models, groups, threshold, i + 1, st)
            ELSE
              IF isLow(fractionOf(worstModel(gm)), threshold)
              THEN checkGroups(models, groups, threshold, i + 1,
                     [st EXCEPT !.warned = IF name \in st.notified THEN @ ELSE @ \cup {name},
                                !.notified = @ \cup {name},
                                !.current = @ \cup {name}])
              ELSE checkGroups(models, groups, threshold, i + 1, st)

\* the second loop left out
resetNotified_Keep(notified, current) == notified

\* the second loop: names that are not low in this check are forgotten
resetNotified(notified, current) == notified \cap current

checkLowQuota(models, groups, threshold, notified) ==
    LET st == checkGroups(models, groups, threshold, 1,
                          [notified |-> notified, current |-> {}, warned |-> {}, threw |-> FALSE])
    IN  IF st.threw THEN st
        ELSE [st EXCEPT !.notified = resetNotified(st.notified, st.current)]

\* groups this check saw with a worst percentage above the threshold
seenAbove(models, groups, threshold) ==
    { groups[i].name : i \in
        { j \in 1..Len(groups) :
            /\ ~filterThrows(models, groups[j].patterns)
            /\ groupModels(models, groups[j].patterns) # <<>>
            /\ ~isLow(fractionOf(worstModel(groupModels(models, groups[j].patterns))), threshold) } }

----------------------------------------------------------------------------
(* refresh() *)

IdleTask == [pc |-> "idle", processInfo |-> <<>>, idx |-> 0]

\* findLanguageServerPorts() not running
IdleFinder == [pc |-> "idle"]

Active(t) == tasks[t].pc # "idle"

\* the guard left out: every call goes on to fetch
refreshGuard_Missing == TRUE

\* if (this.isRefreshing) return;
refreshGuard == ~isRefreshing

FreeTask == CHOOSE t \in 1..MaxTasks : ~Active(t) /\ \A u \in 1..(t - 1) : Active(u)

\* refresh() up to its first await; `deadline` is nextFetchTime as the caller left it
refreshStart(who, deadline) ==
    /\ op' = who
    /\ nextFetchTime' = deadline
    /\ warned' = {}
    /\ received' = NoResponse
    /\ candidate' = 0
    /\ UNCHANGED <<cachedModels, lastError, notifiedGroups, unrecovered>>
    /\ IF refreshGuard
       THEN /\ \E t \in 1..MaxTasks : ~Active(t)
            /\ isRefreshing' = TRUE
            /\ fired' = 1
            /\ issued' = "discovery"
            /\ tasks' = [tasks EXCEPT ![FreeTask] = [pc |-> "discover", processInfo |-> <<>>, idx |-> 0]]
       ELSE /\ fired' = 0
            /\ issued' = "none"
            /\ UNCHANGED <<isRefreshing, tasks>>

\* processInfo.length === 0
notFound == [models |-> <<>>, error |-> "Language server not found."]

\* the failure keeps the list of the last good fetch
connectFailed_KeepCache ==
    [models |-> cachedModels, error |-> "Failed to connect to language server."]

\* !success
connectFailed == [models |-> <<>>, error |-> "Failed to connect to language server."]

\* success = true forgotten: the branch for !success runs
fetched_NoSuccess(list) == connectFailed

\* res.ok: the list is stored, success = true
fetched(list) == [models |-> list, error |-> "undefined"]

\* the new deadline counted from the old one
deadlineAfter_Drift(threw) ==
    nextFetchTime + (IF threw THEN RETRY_DELAY ELSE refreshInterval)

\* Date.now() + this.refreshInterval, or Date.now() + 30000 in the catch block
deadlineAfter(threw) ==
    now + (IF threw THEN RETRY_DELAY ELSE refreshInterval)

\* the release written as the last statements of the try block: a throw skips it
finallyBlock_InTry(threw) == [isRefreshing |-> threw, fired |-> IF threw THEN 0 ELSE 1]

\* finally { this.isRefreshing = false; this._onDidUpdate.fire(); }
finallyBlock(threw) == [isRefreshing |-> FALSE, fired |-> 1]

\* the check run before the outcome is stored: it reads the list of the
\* refresh before
checkedRecords_Before(outcome) == cachedModels

\* line 120 follows the assignments of lines 86, 105 and 114: checkLowQuota()
\* reads this.cachedModels as this refresh left it
checkedRecords(outcome) == outcome.models

\* lines 112-132: the rest of refresh() once the outcome is decided
refreshFinish(t, outcome) ==
    LET chk == checkLowQuota(checkedRecords(outcome), config.groups, lowQuotaThreshold,
                             notifiedGroups) IN
    /\ cachedModels' = outcome.models
    /\ notifiedGroups' = chk.notified
    /\ warned' = chk.warned
    /\ nextFetchTime' = deadlineAfter(chk.threw)
    /\ IF chk.threw
       THEN /\ lastError' = "TypeError"
            /\ UNCHANGED unrecovered
       ELSE /\ lastError' = outcome.error
            /\ unrecovered' =
                 (unrecovered \ seenAbove(outcome.models, config.groups, lowQuotaThreshold))
                     \cup chk.warned
    /\ isRefreshing' = finallyBlock(chk.threw).isRefreshing
    /\ fired' = finallyBlock(chk.threw).fired
    /\ issued' = "none"
    /\ tasks' = [tasks EXCEPT ![t] = IdleTask]

\* the candidate that failed is contacted again
nextCandidate_Retry(t) ==
    /\ tasks' = [tasks EXCEPT ![t].pc = "fetch"]
    /\ issued' = "http"
    /\ fired' = 0
    /\ warned' = {}
    /\ UNCHANGED <<engine, unrecovered>>

\* the for loop moves to the next candidate, or ends without success
nextCandidate(t) ==
    IF tasks[t].idx < Len(tasks[t].processInfo)
    THEN /\ tasks' = [tasks EXCEPT ![t].idx = @ + 1, ![t].pc = "fetch"]
         /\ issued' = "http"
         /\ fired' = 0
         /\ warned' = {}
         /\ UNCHANGED <<engine, unrecovered>>
    ELSE refreshFinish(t, connectFailed)

----------------------------------------------------------------------------
(* Actions *)

\* the labels a nickname is given to, and no nickname
NickLabels == {FlashLabel, ProLabel}
NoNickname == "undefined"

\* modelNicknames is {}, no input box is open, no config.update() is under way
NoMenu ==
    [modelNicknames |-> [l \in NickLabels |-> NoNickname], prompt |-> <<>>, writes |-> <<>>]

\* nothing has been asked for, and no refresh has ended
NoHistory ==
    [requested |-> FALSE, invoked |-> FALSE, completedAt |-> -1, threw |-> FALSE, interval |-> 0]

\* the first deadline set as after an error
constructed_Waiting(h, settings) ==
    /\ horizon = h
    /\ now = 0
    /\ config \in settings
    /\ cachedModels = <<>>
    /\ refreshInterval = config.refreshInterval * UnitsPerSecond
    /\ lowQuotaThreshold = config.lowQuotaThreshold
    /\ nextFetchTime = now + RETRY_DELAY
    /\ isRefreshing = FALSE
    /\ lastError = "undefined"
    /\ notifiedGroups = {}
    /\ tasks = [t \in 1..MaxTasks |-> IdleTask]
    /\ op = "constructor"
    /\ fired = 0
    /\ warned = {}
    /\ issued = "none"
    /\ received = NoResponse
    /\ candidate = 0
    /\ unrecovered = {}
    /\ items = <<>>
    /\ finder = IdleFinder
    /\ history = NoHistory
    /\ menu = NoMenu

\* the state after construction, under one of `settings` and with the clock
\* of the model stopping at h
constructed(h, settings) ==
    /\ horizon = h
    /\ now = 0
    /\ config \in settings
    /\ cachedModels = <<>>
    /\ refreshInterval = config.refreshInterval * UnitsPerSecond
    /\ lowQuotaThreshold = config.lowQuotaThreshold
    /\ nextFetchTime = now
    /\ isRefreshing = FALSE
    /\ lastError = "undefined"
    /\ notifiedGroups = {}
    /\ tasks = [t \in 1..MaxTasks |-> IdleTask]
    /\ op = "constructor"
    /\ fired = 0
    /\ warned = {}
    /\ issued = "none"
    /\ received = NoResponse
    /\ candidate = 0
    /\ unrecovered = {}
    /\ items = <<>>
    /\ finder = IdleFinder
    /\ history = NoHistory
    /\ menu = NoMenu

Init == constructed(MaxTime, Configs)

\* the clock moves off a tick instant; no handler runs
Elapse ==
    /\ now % FAST_TIMER = 0
    /\ now + 1 <= horizon
    /\ now' = now + 1
    /\ op' = "elapse"
    /\ fired' = 0
    /\ warned' = {}
    /\ issued' = "none"
    /\ received' = NoResponse
    /\ candidate' = 0
    /\ UNCHANGED <<config, refreshInterval, lowQuotaThreshold, engine, tasks, unrecovered>>

\* poll(), run by the timer at the next multiple of FAST_TIMER
\* the deadline compared with > instead of >=
pollDue_Strict(time) == time > nextFetchTime /\ ~isRefreshing

\* no fetch is started while an error stands
pollDue_GiveUp(time) == time >= nextFetchTime /\ ~isRefreshing /\ lastError = "undefined"

\* Date.now() >= this.nextFetchTime && !this.isRefreshing
pollDue(time) == time >= nextFetchTime /\ ~isRefreshing

\* a tick that starts no fetch fires nothing
poll_Quiet ==
    IF pollDue(now')
    THEN refreshStart("poll", nextFetchTime)
    ELSE /\ op' = "poll"
         /\ fired' = 0
         /\ warned' = {}
         /\ issued' = "none"
         /\ received' = NoResponse
         /\ candidate' = 0
         /\ UNCHANGED <<engine, tasks, unrecovered>>

\* poll(): lines 37-44
poll ==
    IF pollDue(now')
    THEN refreshStart("poll", nextFetchTime)
    ELSE /\ op' = "poll"
         /\ fired' = 1
         /\ warned' = {}
         /\ issued' = "none"
         /\ received' = NoResponse
         /\ candidate' = 0
         /\ UNCHANGED <<engine, tasks, unrecovered>>

Tick ==
    /\ (now \div FAST_TIMER + 1) * FAST_TIMER <= horizon
    /\ now' = (now \div FAST_TIMER + 1) * FAST_TIMER
    /\ poll
    /\ UNCHANGED <<config, refreshInterval, lowQuotaThreshold>>

\* a direct call of the public refresh()
Refresh ==
    /\ refreshStart("refresh", nextFetchTime)
    /\ UNCHANGED <<now, config, refreshInterval, lowQuotaThreshold>>

\* the deadline left as it was
manualRefresh_KeepDeadline ==
    /\ refreshStart("manualRefresh", nextFetchTime)
    /\ UNCHANGED <<now, config, refreshInterval, lowQuotaThreshold>>

\* manualRefresh(): this.nextFetchTime = Date.now(); await this.refresh()
manualRefresh ==
    /\ refreshStart("manualRefresh", now)
    /\ UNCHANGED <<now, config, refreshInterval, lowQuotaThreshold>>

\* findLanguageServerPorts() resolves
DiscoveryReturns(t, ports) ==
    /\ tasks[t].pc = "discover"
    /\ op' = "discovery"
    /\ received' = NoResponse
    /\ candidate' = 0
    /\ IF Len(ports) = 0
       THEN refreshFinish(t, notFound)
       ELSE /\ tasks' = [tasks EXCEPT ![t] = [pc |-> "fetch", processInfo |-> ports, idx |-> 1]]
            /\ issued' = "http"
            /\ fired' = 0
            /\ warned' = {}
            /\ UNCHANGED <<engine, unrecovered>>
    /\ UNCHANGED <<now, config, refreshInterval, lowQuotaThreshold>>

\* fetch() settles: a transport error, a non-success status, or res.ok
FetchReturns(t, outcome) ==
    /\ tasks[t].pc = "fetch"
    /\ op' = "fetch"
    /\ received' = NoResponse
    /\ candidate' = tasks[t].idx
    /\ IF outcome = "ok"
       THEN /\ tasks' = [tasks EXCEPT ![t].pc = "json"]
            /\ issued' = "json"
            /\ fired' = 0
            /\ warned' = {}
            /\ UNCHANGED <<engine, unrecovered>>
       ELSE nextCandidate(t)
    /\ UNCHANGED <<now, config, refreshInterval, lowQuotaThreshold>>

\* res.json() resolves with `body`: its list is cached and the loop left, or
\* reading it throws and the loop goes on
JsonReturns(t, body) ==
    /\ tasks[t].pc = "json"
    /\ op' = "json"
    /\ received' = body
    /\ candidate' = tasks[t].idx
    /\ IF readThrows(body)
       THEN nextCandidate(t)
       ELSE refreshFinish(t, fetched(clientModelConfigs(body)))
    /\ UNCHANGED <<now, config, refreshInterval, lowQuotaThreshold>>

\* res.json() rejects: caught by the inner try, the loop goes on
JsonThrows(t) ==
    /\ tasks[t].pc = "json"
    /\ op' = "jsonError"
    /\ received' = NoResponse
    /\ candidate' = tasks[t].idx
    /\ nextCandidate(t)
    /\ UNCHANGED <<now, config, refreshInterval, lowQuotaThreshold>>

\* the countdown restarted under the new interval
updateConfig_Reschedule(c) ==
    /\ c # config
    /\ config' = c
    /\ refreshInterval' = c.refreshInterval * UnitsPerSecond
    /\ lowQuotaThreshold' = c.lowQuotaThreshold
    /\ nextFetchTime' = now + refreshInterval'
    /\ op' = "updateConfig"
    /\ fired' = 0
    /\ warned' = {}
    /\ issued' = "none"
    /\ received' = NoResponse
    /\ candidate' = 0
    /\ UNCHANGED <<now, cachedModels, lastError, notifiedGroups, isRefreshing, tasks, unrecovered>>

\* the user edits the settings; onDidChangeConfiguration runs updateConfig()
updateConfig(c) ==
    /\ c # config
    /\ config' = c
    /\ refreshInterval' = c.refreshInterval * UnitsPerSecond
    /\ lowQuotaThreshold' = c.lowQuotaThreshold
    /\ op' = "updateConfig"
    /\ fired' = 0
    /\ warned' = {}
    /\ issued' = "none"
    /\ received' = NoResponse
    /\ candidate' = 0
    /\ UNCHANGED <<now, engine, tasks, unrecovered>>

\* the engine alone: the status bar and the process finder stay as they are
Apart == UNCHANGED <<horizon, items, finder, history, menu>>

Next ==
    \/ Elapse /\ Apart
    \/ Tick /\ Apart
    \/ Refresh /\ Apart
    \/ manualRefresh /\ Apart
    \/ \E t \in 1..MaxTasks, ports \in PortLists : DiscoveryReturns(t, ports) /\ Apart
    \/ \E t \in 1..MaxTasks, outcome \in {"error", "status", "ok"} :
           FetchReturns(t, outcome) /\ Apart
    \/ \E t \in 1..MaxTasks, body \in Bodies : JsonReturns(t, body) /\ Apart
    \/ \E t \in 1..MaxTasks : JsonThrows(t) /\ Apart
    \/ \E c \in Configs : updateConfig(c) /\ Apart

Spec == Init /\ [][Next]_vars

----------------------------------------------------------------------------
(* The engine left to its timer: the clock runs past the retry delay, the     *)
(* timer keeps firing and every external call returns                         *)

LiveHorizon == RETRY_DELAY + MaxTime

LiveInit == constructed(LiveHorizon, {Settings(1, 20, <<FlashGroup, ProGroup>>)})

\* a list the check warns about, and one it throws on
LiveBodies == { Envelope(<<Model(FlashLabel, 196)>>), Envelope(<<ModelNoLabel(50)>>) }

DiscoveryStep == \E t \in 1..MaxTasks, ports \in PortLists : DiscoveryReturns(t, ports) /\ Apart
FetchStep ==
    \E t \in 1..MaxTasks, outcome \in {"error", "status", "ok"} : FetchReturns(t, outcome) /\ Apart
JsonStep ==
    \/ \E t \in 1..MaxTasks, body \in LiveBodies : JsonReturns(t, body) /\ Apart
    \/ \E t \in 1..MaxTasks : JsonThrows(t) /\ Apart
TimerStep == Tick /\ Apart

LiveNext ==
    \/ Elapse /\ Apart
    \/ TimerStep
    \/ DiscoveryStep
    \/ FetchStep
    \/ JsonStep

LiveSpec ==
    /\ LiveInit
    /\ [][LiveNext]_vars
    /\ WF_vars(TimerStep)
    /\ WF_vars(DiscoveryStep)
    /\ WF_vars(FetchStep)
    /\ WF_vars(JsonStep)

----------------------------------------------------------------------------
(* StatusBarManager: one status bar item per group, kept in a Map by name *)

OFF_KEY == "__off__"
OFF_PRIORITY == 10000
FIRST_PRIORITY == 100
GREEN_FROM == 40
YELLOW_FROM == 20

ModelReset(l, f, r) == [label |-> l, quotaInfo |-> [remainingFraction |-> f, resetTime |-> r]]

\* what an item shows: "$(error) Server Off", "<name>: <perc>%" with its colour
\* and the record the tooltip takes its reset time from, "<name>: ?", or
\* nothing yet (an item created and not written)
ServerOff == [kind |-> "off"]
Percent(perc, color, worst) == [kind |-> "percent", perc |-> perc, color |-> color, worst |-> worst]
Unmatched == [kind |-> "unmatched"]
Unwritten == [kind |-> "unwritten"]

StatusBarItem(name, priority, show) == [name |-> name, priority |-> priority, show |-> show]

has(its, name) == \E k \in 1..Len(its) : its[k].name = name
get(its, name) == its[CHOOSE k \in 1..Len(its) : its[k].name = name]
set(its, name, item) ==
    IF has(its, name)
    THEN [k \in 1..Len(its) |-> IF its[k].name = name THEN item ELSE its[k]]
    ELSE Append(its, item)
delete(its, name) == SelectSeq(its, LAMBDA it : it.name # name)

\* lines 84-91: items of groups no longer configured are disposed of
cleanup(its, groups) ==
    SelectSeq(its, LAMBDA it :
        (\E i \in 1..Len(groups) : groups[i].name = it.name) \/ it.name = OFF_KEY)

\* the colour taken from the fraction before rounding
colorOf_Raw(perc, fraction) ==
    IF fraction >= GREEN_FROM * 10 THEN "charts.green"
    ELSE IF fraction >= YELLOW_FROM * 10 THEN "charts.yellow"
    ELSE "charts.red"

\* lines 138-144
colorOf(perc, fraction) ==
    IF perc >= GREEN_FROM THEN "charts.green"
    ELSE IF perc >= YELLOW_FROM THEN "charts.yellow"
    ELSE "charts.red"

\* lines 126-159: what the item of a group shows, given its matching records
showOf(matching) ==
    IF matching # <<>>
    THEN LET worst == worstModel(matching)
             perc == Math_round10(fractionOf(worst))
         IN  Percent(perc, colorOf(perc, fractionOf(worst)), worst)
    ELSE Unmatched

\* MenuManager.showMenu: the percentage in the entry of one record
menuPercent(m) == Math_round10(fractionOf(m))

\* priority of an item created for the group at 0-based position `index`
priorityAt(index) == FIRST_PRIORITY - index

\* lines 108-160: groups.forEach; a record without a label ends it by a TypeError
\* after the item of that group was created
RECURSIVE forEachGroup(_, _, _, _)
forEachGroup(its, groups, models, i) ==
    IF i > Len(groups) THEN its
    ELSE
      LET name == groups[i].name
          patterns == groups[i].patterns
          created == IF has(its, name) THEN its
                     ELSE set(its, name, StatusBarItem(name, priorityAt(i - 1), Unwritten))
      IN  IF filterThrows(models, patterns) THEN created
          ELSE forEachGroup(
                 set(created, name,
                     [get(created, name) EXCEPT !.show = showOf(groupModels(models, patterns))]),
                 groups, models, i + 1)

\* lines 93-102: models.length === 0
offBranch(its) ==
    IF Len(its) = 0
    THEN set(its, OFF_KEY, StatusBarItem(OFF_KEY, OFF_PRIORITY, ServerOff))
    ELSE its

\* StatusBarManager.update()
update(its, groups, models) ==
    LET kept == cleanup(its, groups) IN
    IF Len(models) = 0 THEN offBranch(kept)
    ELSE forEachGroup(delete(kept, OFF_KEY), groups, models, 1)

\* the listeners of onDidUpdate and of onDidChangeConfiguration run within the
\* step that fires the event
Shown ==
    /\ items' = IF fired' > 0 \/ config' # config
                THEN update(items, config'.groups, cachedModels')
                ELSE items
    /\ UNCHANGED <<horizon, finder, history, menu>>

BarConfigs ==
    { Settings(1, 20, <<FlashGroup, ProGroup>>),
      Settings(1, 20, <<ProGroup, FlashGroup>>),
      Settings(1, 20, <<ProGroup>>),
      Settings(1, 50, <<FlashGroup>>) }

BarLists ==
    { <<ModelReset(FlashLabel, 900, 1), ModelReset(FlashLabel, 150, 2), ModelReset(FlashLabel, 500, 3)>>,
      <<ModelReset(FlashLabel, 196, 1), ModelReset(FlashLabel, 196, 2)>>,
      <<ModelNoQuota(FlashLabel), ModelReset(FlashLabel, 204, 1)>>,
      <<ModelNoQuota(FlashLabel), Model(ProLabel, 50)>>,
      <<ModelNoLabel(50)>> }

BarBodies == { Envelope(list) : list \in BarLists } \cup { NoPathBody }

BarInit == constructed(FAST_TIMER, BarConfigs)

BarNext ==
    \/ Tick /\ Shown
    \/ Refresh /\ Shown
    \/ \E t \in 1..MaxTasks, ports \in PortLists : DiscoveryReturns(t, ports) /\ Shown
    \/ \E t \in 1..MaxTasks, outcome \in {"error", "status", "ok"} :
           FetchReturns(t, outcome) /\ Shown
    \/ \E t \in 1..MaxTasks, body \in BarBodies : JsonReturns(t, body) /\ Shown
    \/ \E t \in 1..MaxTasks : JsonThrows(t) /\ Shown
    \/ \E c \in BarConfigs : updateConfig(c) /\ Shown

BarSpec == BarInit /\ [][BarNext]_vars

\* one group and one record; its remainingFraction, in thousandths, lies just
\* below or just at a rounding boundary: x.4% and x.5% for every x
Boundaries == { f \in 0..(100 * 10) : f % 10 \in {4, 5} }

ColorBodies == { Envelope(<<Model(FlashLabel, f)>>) : f \in Boundaries }

ColorInit == constructed(0, {Settings(1, 20, <<FlashGroup>>)})

ColorNext ==
    \/ Refresh /\ Shown
    \/ \E t \in 1..MaxTasks, ports \in PortLists : DiscoveryReturns(t, ports) /\ Shown
    \/ \E t \in 1..MaxTasks, outcome \in {"error", "status", "ok"} :
           FetchReturns(t, outcome) /\ Shown
    \/ \E t \in 1..MaxTasks, body \in ColorBodies : JsonReturns(t, body) /\ Shown

ColorSpec == ColorInit /\ [][ColorNext]_vars

----------------------------------------------------------------------------
(* ProcessFinder.findLanguageServerPorts                                      *)
(* The output of a command is a sequence of lines, a line a sequence of       *)
(* words (its text split at white space, or at commas for the CSV of          *)
(* tasklist), a word a sequence of symbols: characters, and the fixed words   *)
(* the code looks for taken as one symbol each.                               *)

Digits == {"0", "1", "2", "3", "4", "5", "6", "7", "8", "9"}

Min(S) == CHOOSE x \in S : \A y \in S : x <= y

\* all words of the output, in order
RECURSIVE words(_)
words(out) == IF out = <<>> THEN <<>> ELSE Head(out) \o words(Tail(out))

\* the longest run of digits of `w` that starts at position i
RECURSIVE digitRun(_, _)
digitRun(w, i) ==
    IF i <= Len(w) /\ w[i] \in Digits THEN <<w[i]>> \o digitRun(w, i + 1) ELSE <<>>

\* line.includes(text)
lineIncludes(line, text) == \E k \in 1..Len(line) : includes(line[k], text)

\* (s.match(/--csrf_token\s+([^\s]+)/) || s.match(/--csrf_token=([^\s]+)/))?.[1] || ""
csrfOf(ws) ==
    LET spaced == { k \in 1..(Len(ws) - 1) :
                      Len(ws[k]) > 0 /\ ws[k][Len(ws[k])] = "--csrf_token" /\ Len(ws[k + 1]) > 0 }
        joined == { k \in 1..Len(ws) :
                      \E i \in 1..(Len(ws[k]) - 2) : ws[k][i] = "--csrf_token" /\ ws[k][i + 1] = "=" }
    IN  IF spaced # {} THEN ws[Min(spaced) + 1]
        ELSE IF joined # {}
        THEN LET w == ws[Min(joined)]
                 i == Min({ i \in 1..(Len(w) - 2) : w[i] = "--csrf_token" /\ w[i + 1] = "=" })
             IN  SubSeq(w, i + 2, Len(w))
        ELSE <<>>

\* (taskOut.match(/ProcessId=(\d+)/))?.[1] || ""
pidOfWmic(ws) ==
    LET hits == { k \in 1..Len(ws) :
                    \E i \in 1..(Len(ws[k]) - 2) :
                        ws[k][i] = "ProcessId" /\ ws[k][i + 1] = "=" /\ ws[k][i + 2] \in Digits }
    IN  IF hits = {} THEN <<>>
        ELSE LET w == ws[Min(hits)]
                 i == Min({ i \in 1..(Len(w) - 2) :
                              w[i] = "ProcessId" /\ w[i + 1] = "=" /\ w[i + 2] \in Digits })
             IN  digitRun(w, i + 2)

\* line.trim().split(/\s+/)[1]
pidOfPs(line) == IF Len(line) >= 2 THEN line[2] ELSE <<>>

\* psOut.split('\n')[0]
firstLine(out) == IF Len(out) = 0 THEN <<>> ELSE out[1]

\* the first line that includes "language_server": its first CSV field, or "" if none
imageName(out) ==
    LET hits == { k \in 1..Len(out) : lineIncludes(out[k], <<"language_server">>) }
    IN  IF hits = {} \/ Len(out[Min(hits)]) = 0 THEN <<>> ELSE out[Min(hits)][1]

\* a word that ends in ":" and digits, as /:(\d+)\s+/ finds it: the digits, else <<>>
portIn(w) ==
    LET at == { i \in 1..(Len(w) - 1) :
                  w[i] = ":" /\ digitRun(w, i + 1) = SubSeq(w, i + 1, Len(w)) }
    IN  IF at = {} THEN <<>> ELSE SubSeq(w, Min(at) + 1, Len(w))

\* line.match(/:(\d+)\s+/): the port of the first word that has one
portOfLine(line) ==
    LET hits == { k \in 1..Len(line) : portIn(line[k]) # <<>> }
    IN  IF hits = {} THEN <<>> ELSE portIn(line[Min(hits)])

\* lines 42-48: one port pushed for every LISTENING line that includes the pid
RECURSIVE netstatPorts(_, _, _)
netstatPorts(out, pid, ports) ==
    IF out = <<>> THEN ports
    ELSE LET line == Head(out)
             hit == /\ lineIncludes(line, <<"LISTENING">>)
                    /\ lineIncludes(line, pid)
                    /\ portOfLine(line) # <<>>
         IN  netstatPorts(Tail(out), pid, IF hit THEN Append(ports, portOfLine(line)) ELSE ports)

\* [...new Set(list)]: the first occurrence of each element, in order
RECURSIVE distinct(_, _)
distinct(list, seen) ==
    IF list = <<>> THEN seen
    ELSE distinct(Tail(list),
                  IF \E k \in 1..Len(seen) : seen[k] = Head(list) THEN seen
                  ELSE Append(seen, Head(list)))

\* lsofOut.match(/:(\d+)\s+\(LISTEN\)/g)?.map(p => p.match(/:(\d+)/)![1])
lsofMatches(ws) ==
    LET hits == { k \in 1..(Len(ws) - 1) :
                    portIn(ws[k]) # <<>> /\ Len(ws[k + 1]) > 0 /\ ws[k + 1][1] = "(LISTEN)" }
        pick[k \in 0..Len(ws)] ==
            IF k = 0 THEN <<>>
            ELSE IF k \in hits THEN Append(pick[k - 1], portIn(ws[k])) ELSE pick[k - 1]
    IN  pick[Len(ws)]

\* line 51
lsofPorts(out) == distinct(lsofMatches(words(out)), <<>>)

\* ports.map(port => ({ port, csrf }))
pairs(ports, csrf) == [k \in 1..Len(ports) |-> [port |-> ports[k], csrf |-> csrf]]

\* return <list>
returned(f, list) == [f EXCEPT !.pc = "done", !.result = list]

\* the rejection passed on to the caller
catchBlock_Rethrow(f) == [f EXCEPT !.pc = "rejected", !.failed = TRUE]

\* catch (e) { console.error(...); return []; }
catchBlock(f) == returned([f EXCEPT !.failed = TRUE], <<>>)

\* everything of QuotaService and StatusBarManager
others == <<now, config, cachedModels, refreshInterval, lowQuotaThreshold,
            nextFetchTime, isRefreshing, lastError, notifiedGroups, tasks,
            op, fired, warned, issued, received, candidate, unrecovered,
            horizon, items, history, menu>>

\* a few words
W_user == <<"u">>
W_server == <<"/", "language_server", "_", "x">>
W_flag == <<"--csrf_token">>
W_token == <<"t", "k">>
W_other == <<"t", "z">>
W_flagToken == <<"--csrf_token", "=", "t", "k">>
W_pid == <<"7">>
W_pid17 == <<"1", "7">>
W_listen == <<"(LISTEN)">>
W_established == <<"(ESTABLISHED)">>

Addr(host, port) == <<host, ":">> \o port

PsOutputs ==
    { <<>>,
      << <<W_user, W_pid, W_server, W_flag, W_token>> >>,
      << <<W_user, W_pid, W_server, W_flagToken>>, <<W_user, W_pid17, W_server, W_flag, W_other>> >>,
      << <<W_user, W_pid, W_server>> >>,
      << <<W_server>> >> }

LsofOutputs ==
    { <<>>,
      << <<W_server, W_pid, Addr("*", <<"4", "1">>), W_listen>> >>,
      << <<W_server, W_pid, Addr("*", <<"4", "1">>), W_listen>>,
         <<W_server, W_pid, Addr("a", <<"4", "1">>), W_listen>>,
         <<W_server, W_pid, Addr("*", <<"4", "2">>), W_listen>> >>,
      << <<W_server, W_pid, Addr("a", <<"4", "1">>) \o <<"-", ">">> \o Addr("b", <<"9">>), W_established>> >> }

TasklistOutputs ==
    { <<>>,
      << << <<"c", "m", "d">>, <<"3">> >> >>,
      << << <<"c", "m", "d">>, <<"3">> >>, << <<"language_server", "_", "w">>, W_pid >> >>,
      << << <<>>, <<"language_server">> >> >> }

WmicOutputs ==
    { <<>>,
      << <<W_server, W_flag, W_token>>, << <<"ProcessId", "=", "7">> >> >>,
      << <<W_server, W_flagToken>>, << <<"ProcessId", "=", "7">> >> >>,
      << <<W_server>>, << <<"ProcessId", "=", "7">> >> >>,
      << <<W_server, W_flag, W_token>>, << <<"ProcessId", "=">> >> >> }

NetLine(local, state, pid) == << <<"TCP">>, local, Addr("0", <<"0">>), <<state>>, pid >>

NetstatOutputs ==
    { <<>>,
      << NetLine(Addr("a", <<"4", "1">>), "LISTENING", W_pid) >>,
      << NetLine(Addr("a", <<"4", "1">>), "LISTENING", W_pid),
         NetLine(Addr("b", <<"4", "1">>), "LISTENING", W_pid),
         NetLine(Addr("a", <<"4", "2">>), "ESTABLISHED", W_pid) >>,
      << NetLine(Addr("a", <<"4", "1">>), "LISTENING", W_pid),
         NetLine(Addr("a", <<"4", "3">>), "LISTENING", W_pid17),
         NetLine(Addr("a", <<"4", "4">>), "LISTENING", <<"8">>) >> }

\* findLanguageServerPorts() is called: lines 8-14 or 8-30
Locate(isWindows) ==
    [pc |-> IF isWindows THEN "tasklist" ELSE "ps", isWindows |-> isWindows,
     image |-> <<>>, pid |-> <<>>, csrf |-> <<>>,
     out |-> <<>>, failed |-> FALSE, result |-> <<>>]

\* refresh() is called; if it goes on to fetch, it calls findLanguageServerPorts()
RefreshLocates(isWindows) ==
    /\ Refresh
    /\ finder' = IF issued' = "discovery" THEN Locate(isWindows) ELSE finder
    /\ UNCHANGED <<horizon, items, history, menu>>

\* the promise of findLanguageServerPorts() resolves in refresh()
LocateResolves(t) ==
    /\ finder.pc = "done"
    /\ DiscoveryReturns(t, finder.result)
    /\ Apart

\* execAsync rejects: the command failed or exited with a status other than 0
ExecFails ==
    /\ finder.pc \in {"ps", "lsof", "tasklist", "wmic", "netstat"}
    /\ finder' = catchBlock(finder)
    /\ UNCHANGED others

\* lines 30-37 and the start of line 50
PsReturns(out) ==
    /\ finder.pc = "ps"
    /\ LET line == firstLine(out)
           f == [finder EXCEPT !.out = out] IN
       finder' = IF Len(line) = 0 THEN returned(f, <<>>)
                 ELSE IF pidOfPs(line) = <<>>
                 THEN returned([f EXCEPT !.csrf = csrfOf(line)], <<>>)
                 ELSE [f EXCEPT !.pid = pidOfPs(line), !.csrf = csrfOf(line), !.pc = "lsof"]
    /\ UNCHANGED others

\* lines 50-54
LsofReturns(out) ==
    /\ finder.pc = "lsof"
    /\ finder' = returned([finder EXCEPT !.out = out], pairs(lsofPorts(out), finder.csrf))
    /\ UNCHANGED others

\* lines 14-26
TasklistReturns(out) ==
    /\ finder.pc = "tasklist"
    /\ LET f == [finder EXCEPT !.out = out, !.image = imageName(out)] IN
       finder' = IF imageName(out) = <<>> THEN returned(f, <<>>) ELSE [f EXCEPT !.pc = "wmic"]
    /\ UNCHANGED others

\* lines 26-28, 37 and 41
WmicReturns(out) ==
    /\ finder.pc = "wmic"
    /\ LET f == [finder EXCEPT !.out = out, !.pid = pidOfWmic(words(out)),
                                !.csrf = csrfOf(words(out))] IN
       finder' = IF f.pid = <<>> THEN returned(f, <<>>) ELSE [f EXCEPT !.pc = "netstat"]
    /\ UNCHANGED others

\* lines 41-48 and 54
NetstatReturns(out) ==
    /\ finder.pc = "netstat"
    /\ finder' = returned([finder EXCEPT !.out = out],
                           pairs(netstatPorts(out, finder.pid, <<>>), finder.csrf))
    /\ UNCHANGED others

FinderInit == constructed(0, {Settings(1, 20, <<FlashGroup, ProGroup>>)})

FinderBodies == { Envelope(<<Model(FlashLabel, 196)>>), NoPathBody }

FinderNext ==
    \/ \E isWindows \in BOOLEAN : RefreshLocates(isWindows)
    \/ \E t \in 1..MaxTasks : LocateResolves(t)
    \/ \E t \in 1..MaxTasks, outcome \in {"error", "status", "ok"} :
           FetchReturns(t, outcome) /\ Apart
    \/ \E t \in 1..MaxTasks, body \in FinderBodies : JsonReturns(t, body) /\ Apart
    \/ \E t \in 1..MaxTasks : JsonThrows(t) /\ Apart
    \/ ExecFails
    \/ \E out \in PsOutputs : PsReturns(out)
    \/ \E out \in LsofOutputs : LsofReturns(out)
    \/ \E out \in TasklistOutputs : TasklistReturns(out)
    \/ \E out \in WmicOutputs : WmicReturns(out)
    \/ \E out \in NetstatOutputs : NetstatReturns(out)

FinderSpec == FinderInit /\ [][FinderNext]_vars

----------------------------------------------------------------------------
(* The engine with a record of what its refreshes did                         *)

\* the step ran refresh() past its guard, and to its end
Starts == ~isRefreshing /\ isRefreshing'
Completes == isRefreshing /\ ~isRefreshing'

\* requested: manualRefresh() was called and no fetch has started at or after
\*            the call
\* invoked:   refresh() or manualRefresh() was called
\* completedAt, threw, interval: when the last refresh ended, whether through
\*            the catch block, and the refreshInterval it read
Recorded ==
    /\ history' =
          [requested |-> IF Starts THEN FALSE
                         ELSE IF op' = "manualRefresh" THEN TRUE
                         ELSE history.requested,
           invoked |-> history.invoked \/ op' \in {"refresh", "manualRefresh"},
           completedAt |-> IF Completes THEN now' ELSE history.completedAt,
           threw |-> IF Completes THEN lastError' = "TypeError" ELSE history.threw,
           interval |-> IF Completes THEN refreshInterval' ELSE history.interval]
    /\ UNCHANGED <<horizon, items, finder, menu>>

\* a list the check passes, one it throws on, and a body without a list
ManualBodies == { Envelope(<<Model(FlashLabel, 900)>>), Envelope(<<ModelNoLabel(50)>>), NoPathBody }

ManualInit == constructed(MaxTime, {Settings(1, 20, <<FlashGroup, ProGroup>>)})

\* the timer and the two commands
ManualNext ==
    \/ Elapse /\ Recorded
    \/ Tick /\ Recorded
    \/ Refresh /\ Recorded
    \/ manualRefresh /\ Recorded
    \/ \E t \in 1..MaxTasks, ports \in PortLists : DiscoveryReturns(t, ports) /\ Recorded
    \/ \E t \in 1..MaxTasks, outcome \in {"error", "status", "ok"} :
           FetchReturns(t, outcome) /\ Recorded
    \/ \E t \in 1..MaxTasks, body \in ManualBodies : JsonReturns(t, body) /\ Recorded
    \/ \E t \in 1..MaxTasks : JsonThrows(t) /\ Recorded

ManualSpec == ManualInit /\ [][ManualNext]_vars

\* the timer alone, under the default interval of 30 s or one of 1 s, the clock
\* running past the retry delay
DEFAULT_INTERVAL == 30

PollConfigs == { Settings(i, 20, <<FlashGroup, ProGroup>>) : i \in {1, DEFAULT_INTERVAL} }

PollInit == constructed(LiveHorizon, PollConfigs)

PollNext ==
    \/ Elapse /\ Recorded
    \/ Tick /\ Recorded
    \/ \E t \in 1..MaxTasks, ports \in PortLists : DiscoveryReturns(t, ports) /\ Recorded
    \/ \E t \in 1..MaxTasks, outcome \in {"error", "status", "ok"} :
           FetchReturns(t, outcome) /\ Recorded
    \/ \E t \in 1..MaxTasks, body \in LiveBodies : JsonReturns(t, body) /\ Recorded
    \/ \E t \in 1..MaxTasks : JsonThrows(t) /\ Recorded
    \/ \E c \in PollConfigs : updateConfig(c) /\ Recorded

PollSpec == PollInit /\ [][PollNext]_vars

----------------------------------------------------------------------------
(* getRefreshStatus(): the line of the menu that tells when the next check is *)

SECONDS_PER_MINUTE == 60

Math_max(a, b) == IF a >= b THEN a ELSE b

\* Number.prototype.toString() of a number in 0..99, as its decimal digits
toString(n) == IF n < 10 THEN <<n>> ELSE <<n \div 10, n % 10>>

\* String.prototype.padStart(2, '0')
padStart(str) == IF Len(str) < 2 THEN <<0>> \o str ELSE str

\* the difference taken as it is, below zero once the deadline has passed
secondsLeft_Signed(deadline, time) == (deadline - time) \div UnitsPerSecond

\* Math.max(0, Math.floor((this.nextFetchTime - Date.now()) / 1000))
secondsLeft(deadline, time) == Math_max(0, (deadline - time) \div UnitsPerSecond)

\* "Refreshing...", or "Next check in: <minutes>:<seconds>"
getRefreshStatus ==
    IF isRefreshing THEN [text |-> "Refreshing..."]
    ELSE LET left == secondsLeft(nextFetchTime, now) IN
         [text |-> "Next check in: ",
          minutes |-> left \div SECONDS_PER_MINUTE,
          seconds |-> padStart(toString(left % SECONDS_PER_MINUTE))]

\* intervals of 1 s, of a minute and a second, and of ten minutes and five seconds
StatusConfigs == { Settings(i, 20, <<FlashGroup>>) : i \in {1, 61, 605} }

StatusBodies == { Envelope(<<Model(FlashLabel, 900)>>), Envelope(<<ModelNoLabel(50)>>) }

StatusInit == constructed(MaxTime, StatusConfigs)

StatusNext ==
    \/ Elapse /\ Apart
    \/ Tick /\ Apart
    \/ manualRefresh /\ Apart
    \/ \E t \in 1..MaxTasks, ports \in PortLists : DiscoveryReturns(t, ports) /\ Apart
    \/ \E t \in 1..MaxTasks, outcome \in {"error", "status", "ok"} :
           FetchReturns(t, outcome) /\ Apart
    \/ \E t \in 1..MaxTasks, body \in StatusBodies : JsonReturns(t, body) /\ Apart
    \/ \E t \in 1..MaxTasks : JsonThrows(t) /\ Apart
    \/ \E c \in StatusConfigs : updateConfig(c) /\ Apart

StatusSpec == StatusInit /\ [][StatusNext]_vars

----------------------------------------------------------------------------
(* MenuManager.promptForNickname: the nickname of a model                     *)

MaxWrites == 2

\* the texts the user may enter; the empty one resets the nickname
Inputs == {"", "a", "b"}

\* everything but the menu and the status bar
quota == <<now, config, cachedModels, refreshInterval, lowQuotaThreshold,
           nextFetchTime, isRefreshing, lastError, notifiedGroups, tasks,
           op, fired, warned, issued, received, candidate, unrecovered,
           horizon, finder, history>>

\* the labels offered by the menu and by the picker: those of the cached records
offered == { cachedModels[k].label : k \in { i \in 1..Len(cachedModels) : "label" \in DOMAIN cachedModels[i] } }

\* lines 230-235: a copy of the setting with the entry of modelName deleted or set
changed(nicks, modelName, nick) ==
    [nicks EXCEPT ![modelName] = IF nick = "" THEN NoNickname ELSE nick]

\* showInputBox() is called for the label picked; an input box already open is
\* dismissed and its promise resolves to undefined
promptForNickname(modelName) ==
    /\ modelName \in offered
    /\ menu' = [menu EXCEPT !.prompt = <<modelName>>]
    /\ UNCHANGED <<quota, items>>

\* the user dismisses the input box: nick is undefined, nothing is written
InputCancelled ==
    /\ menu.prompt # <<>>
    /\ menu' = [menu EXCEPT !.prompt = <<>>]
    /\ UNCHANGED <<quota, items>>

\* the user accepts `nick`: the setting is read, changed and handed to
\* config.update(), which is awaited
InputAccepted(nick) ==
    /\ menu.prompt # <<>>
    /\ Len(menu.writes) < MaxWrites
    /\ menu' = [menu EXCEPT
                  !.prompt = <<>>,
                  !.writes = Append(@, [modelName |-> menu.prompt[1],
                                        nick |-> nick,
                                        value |-> changed(menu.modelNicknames,
                                                          menu.prompt[1], nick)])]
    /\ UNCHANGED <<quota, items>>

\* the oldest config.update() under way takes effect; onDidChangeConfiguration
\* runs QuotaService.updateConfig(), which reads the same interval and
\* threshold again, and StatusBarManager.update()
UpdateLands ==
    /\ menu.writes # <<>>
    /\ menu' = [menu EXCEPT !.modelNicknames = Head(menu.writes).value,
                            !.writes = Tail(@)]
    /\ items' = update(items, config.groups, cachedModels)
    /\ UNCHANGED quota

NickBodies == { Envelope(<<Model(FlashLabel, 900), Model(ProLabel, 50)>>), NoPathBody }

NickInit == constructed(0, {Settings(1, 20, <<FlashGroup, ProGroup>>)})

NickNext ==
    \/ Refresh /\ Shown
    \/ \E t \in 1..MaxTasks, ports \in PortLists : DiscoveryReturns(t, ports) /\ Shown
    \/ \E t \in 1..MaxTasks, outcome \in {"error", "status", "ok"} :
           FetchReturns(t, outcome) /\ Shown
    \/ \E t \in 1..MaxTasks, body \in NickBodies : JsonReturns(t, body) /\ Shown
    \/ \E modelName \in NickLabels : promptForNickname(modelName)
    \/ InputCancelled
    \/ \E nick \in Inputs : InputAccepted(nick)
    \/ UpdateLands

NickSpec == NickInit /\ [][NickNext]_vars

----------------------------------------------------------------------------
(* Properties *)

InFlight == { t \in 1..MaxTasks : Active(t) }

\* the last step ran refresh() to its end (the finally block)
Finished == op \in {"discovery", "fetch", "json", "jsonError"} /\ issued = "none"

\* C1: at most one fetch is in flight at any time, and isRefreshing is true
\* exactly while that fetch is in flight, whatever the interleaving of poll
\* ticks, refresh() calls and manualRefresh() calls.
C1_SingleFetch ==
    /\ Cardinality(InFlight) <= 1
    /\ isRefreshing <=> InFlight # {}

\* a tick found the deadline passed while a fetch was in flight, and deferred
C1_Witness ==
    /\ op = "poll"
    /\ isRefreshing
    /\ now >= nextFetchTime
    /\ issued = "none"
    /\ \E t \in InFlight : tasks[t].pc = "fetch"

\* C2: refresh() called while the engine is refreshing changes none of
\* cachedModels, lastError, nextFetchTime, notifiedGroups, isRefreshing, leaves
\* the fetch in flight as it is and starts no discovery or network call.
C2_RefreshNoOp ==
    [][(isRefreshing /\ op' = "refresh")
         => (UNCHANGED <<engine, tasks>> /\ issued' = "none")]_vars

\* refresh() was called during a fetch and returned at once
C2_Witness ==
    /\ op = "refresh"
    /\ issued = "none"
    /\ isRefreshing
    /\ InFlight # {}

\* C3: a poll tick starts a fetch iff the time is at or past nextFetchTime and
\* no fetch is in flight; any other tick fires one update and leaves the
\* engine's fields and the fetch in flight unchanged.
C3_PollTick ==
    [][op' = "poll"
         => /\ (issued' = "discovery") <=> (now' >= nextFetchTime /\ ~isRefreshing)
            /\ issued' = "discovery" => (isRefreshing' /\ Cardinality(InFlight') = 1)
            /\ issued' # "discovery"
                 => (fired' = 1 /\ issued' = "none" /\ UNCHANGED <<engine, tasks>>)]_vars

\* a tick exactly at the deadline started a fetch although the cache was full
C3_Witness ==
    /\ op = "poll"
    /\ issued = "discovery"
    /\ now = nextFetchTime
    /\ now > 0
    /\ cachedModels # <<>>

----------------------------------------------------------------------------
(* The notification check, restated over sets *)

Threw == lastError = "TypeError"

\* the last step ran a notification check to its end
Checked == Finished /\ ~Threw

ConfiguredGroups == { config.groups[i] : i \in 1..Len(config.groups) }

\* indices of the records of `models` the group matches
Matching(models, g) ==
    { k \in 1..Len(models) : "label" \in DOMAIN models[k] /\ matches(models[k], g.patterns) }

\* the least fraction among the group's records, in thousandths
WorstFraction(models, g) ==
    CHOOSE f \in { fractionOf(models[k]) : k \in Matching(models, g) } :
        \A k \in Matching(models, g) : f <= fractionOf(models[k])

\* C11: every step in which an external call of a refresh returns either
\* starts the next external call of that refresh or ends the refresh with
\* isRefreshing cleared and one update fired, whether the refresh succeeded,
\* failed or threw; isRefreshing is never set without a refresh waiting for
\* an external call.
C11_AlwaysReleased ==
    /\ [](isRefreshing => \E t \in InFlight : tasks[t].pc \in {"discover", "fetch", "json"})
    /\ [][\A t \in 1..MaxTasks :
            (Active(t) /\ tasks'[t] # tasks[t])
               => \/ /\ Active(t)'
                     /\ issued' \in {"http", "json"}
                     /\ isRefreshing'
                  \/ /\ ~Active(t)'
                     /\ issued' = "none"
                     /\ ~isRefreshing'
                     /\ fired' = 1]_vars

\* a refresh ended by a thrown error released the engine and fired an update
C11_Witness ==
    /\ Finished
    /\ Threw
    /\ ~isRefreshing
    /\ fired = 1
    /\ InFlight = {}
    /\ nextFetchTime = now + RETRY_DELAY

\* C12: manualRefresh() called while no fetch is in flight sets nextFetchTime
\* to the current time and starts a fetch in the same step, whatever the
\* deadline was.
C12_ManualBypass ==
    [][(op' = "manualRefresh" /\ ~isRefreshing)
          => /\ nextFetchTime' = now'
             /\ now' = now
             /\ issued' = "discovery"
             /\ isRefreshing'
             /\ Cardinality(InFlight') = 1]_vars

\* a manual refresh between two ticks, with the countdown of a successful
\* fetch still running
C12_Witness ==
    /\ op = "manualRefresh"
    /\ issued = "discovery"
    /\ nextFetchTime = now
    /\ now % FAST_TIMER = 1
    /\ cachedModels # <<>>
    /\ lastError = "undefined"

\* a refresh ended in failure: nothing found, nothing connected, or a throw
Failed == Finished /\ lastError # "undefined"

LastTick == (horizon \div FAST_TIMER) * FAST_TIMER

\* C13: after every failed refresh, the first failure or a later one, with
\* the timer firing and the external calls returning, a tick starts a new
\* fetch; it is the first tick at or after the deadline, which lies one
\* configured interval (the fixed retry delay after a throw) past the failure.
C13_KeepsPolling ==
    /\ (Failed /\ nextFetchTime <= LastTick)
          ~> (op = "poll" /\ issued = "discovery"
                /\ nextFetchTime <= now /\ now < nextFetchTime + FAST_TIMER)
    /\ [](Failed => nextFetchTime - now \in {refreshInterval, RETRY_DELAY})

\* the tick at the end of the fixed retry delay started a fetch after a throw
C13_Witness ==
    /\ op = "poll"
    /\ issued = "discovery"
    /\ Threw
    /\ now = nextFetchTime
    /\ now >= RETRY_DELAY + FAST_TIMER

\* C4: once a warning was shown for a group, no further warning is shown for
\* it before a check has seen the group above the threshold.
C4_Debounce ==
    [][\A n \in GroupNames : n \in warned' => n \notin unrecovered]_vars

NotifiedAreLow ==
    \A n \in notifiedGroups :
        \E g \in ConfiguredGroups :
            /\ g.name = n
            /\ Matching(cachedModels, g) # {}
            /\ WorstFraction(cachedModels, g) <= lowQuotaThreshold * 10

C6_UnmatchedKept ==
    [][Checked' =>
         \A g \in ConfiguredGroups :
             Matching(cachedModels', g) = {}
                 => (g.name \in notifiedGroups' <=> g.name \in notifiedGroups)]_vars

----------------------------------------------------------------------------
(* Outcomes of refresh() *)

HasPath(data) ==
    /\ "userStatus" \in DOMAIN data
    /\ "cascadeModelConfigData" \in DOMAIN data.userStatus

ListOf(data) ==
    IF HasPath(data) THEN data.userStatus.cascadeModelConfigData.clientModelConfigs ELSE <<>>

\* the notification check throws on this list under the current groups
CheckThrowsOn(list) ==
    /\ \E k \in 1..Len(list) : "label" \notin DOMAIN list[k]
    /\ \E g \in ConfiguredGroups : g.patterns # <<>>

\* C8 as claimed: a refresh in which a candidate answered with a success status
\* ends with cachedModels equal to the list of that response and no lastError.
C8_SuccessStatus ==
    (Finished /\ op \in {"json", "jsonError"})
        => (received # NoResponse /\ cachedModels = ListOf(received) /\ lastError = "undefined")

\* C8 as amended: a refresh in which a candidate answered with a success status
\* and a body that parses to an object ends with cachedModels equal to the list of the first
\* such response, whatever was cached; lastError is cleared unless the
\* notification check throws on that list, and then it is the thrown message.
C8_ParsedBody ==
    (Finished /\ op = "json" /\ received # NullBody)
        => /\ cachedModels = ListOf(received)
           /\ lastError = IF CheckThrowsOn(ListOf(received)) THEN "TypeError" ELSE "undefined"

\* the second candidate answered after the first failed; an older list is replaced
C8_Witness ==
    /\ Finished
    /\ op = "json"
    /\ candidate = 2
    /\ cachedModels = <<Model(FlashLabel, 900)>>
    /\ lastError = "undefined"
    /\ unrecovered = {"Pro"}

\* C9: a refresh whose discovery found no candidate, or whose candidates all
\* failed, ends with an empty cachedModels and the matching lastError, and
\* with isRefreshing cleared.
C9_FailureClears ==
    /\ (Finished /\ op = "discovery")
          => (cachedModels = <<>> /\ lastError = "Language server not found." /\ ~isRefreshing)
    /\ (Finished /\ op \in {"fetch", "jsonError"})
          => /\ cachedModels = <<>>
             /\ lastError = "Failed to connect to language server."
             /\ ~isRefreshing

\* both candidates failed after an earlier fetch had filled the cache
C9_Witness ==
    /\ Finished
    /\ op = "fetch"
    /\ candidate = 2
    /\ cachedModels = <<>>
    /\ unrecovered # {}

\* C10 as claimed: a finished refresh sets nextFetchTime to now + the interval
\* after a success and to now + the fixed retry delay after a failure.
C10_RetryOnFailure ==
    Finished => nextFetchTime =
        now + (IF lastError = "undefined" THEN config.refreshInterval * UnitsPerSecond
               ELSE RETRY_DELAY)

\* C10 as amended: a finished refresh sets nextFetchTime to now + the
\* configured interval after a success and after a discovery or connection
\* failure alike; the fixed retry delay is used only when refresh() caught an
\* exception.
C10_RetryOnThrow ==
    Finished => nextFetchTime =
        now + (IF Threw THEN RETRY_DELAY ELSE config.refreshInterval * UnitsPerSecond)

\* a failed fetch under the 2 s interval, finished off a tick instant
C10_Witness ==
    /\ Finished
    /\ lastError = "Failed to connect to language server."
    /\ config.refreshInterval = 2
    /\ now % FAST_TIMER = 1
    /\ nextFetchTime = now + 4

----------------------------------------------------------------------------
(* The status bar *)

AllLabelled(models) == \A k \in 1..Len(models) : "label" \in DOMAIN models[k]

\* the pattern occurs in the label, letter case apart
ContainsNoCase(label, p) ==
    \E i \in 0..(Len(label) - Len(p)) :
        \A j \in 1..Len(p) : ToLowerChar(label[i + j]) = ToLowerChar(p[j])

MatchingNoCase(models, g) ==
    { k \in 1..Len(models) :
        \E q \in 1..Len(g.patterns) : ContainsNoCase(models[k].label, g.patterns[q]) }

HasFraction(m) == "quotaInfo" \in DOMAIN m /\ "remainingFraction" \in DOMAIN m.quotaInfo

\* the fraction of a record in thousandths, a missing one counted as 1.0
FractionOrFull(m) == IF HasFraction(m) THEN m.quotaInfo.remainingFraction ELSE 1000

MinFraction(models, M) ==
    CHOOSE f \in { FractionOrFull(models[k]) : k \in M } :
        \A k \in M : f <= FractionOrFull(models[k])

\* the first record of the list that has the least fraction
FirstWorst(models, M) ==
    CHOOSE k \in M :
        /\ FractionOrFull(models[k]) = MinFraction(models, M)
        /\ \A l \in M : FractionOrFull(models[l]) = MinFraction(models, M) => k <= l

OffShown == has(items, OFF_KEY) /\ get(items, OFF_KEY).show = ServerOff

PercentShown == \E k \in 1..Len(items) : items[k].show.kind = "percent"

\* an item was created by an update that threw before writing its text
UnwrittenShown == \E k \in 1..Len(items) : items[k].show.kind = "unwritten"

\* C14: right after the update fired by a refresh that ended with an error
\* and an empty cachedModels, the status bar shows the "Server Off" item and
\* no item shows a percentage (stated for the updates that left no item
\* unwritten).
C14_NoStaleData ==
    (Finished /\ cachedModels = <<>> /\ lastError # "undefined" /\ ~UnwrittenShown)
        => (OffShown /\ ~PercentShown)

\* C15: whenever there are records, the item of every configured group with a
\* matching record (some pattern occurs in the label, letter case apart) shows
\* the least remainingFraction of its matching records as a rounded
\* percentage, and takes its reset time from the first record of the list
\* that has that least fraction.
C15_WorstCase ==
    (cachedModels # <<>> /\ AllLabelled(cachedModels))
        => \A g \in ConfiguredGroups :
              LET M == MatchingNoCase(cachedModels, g) IN
              M # {} =>
                 /\ has(items, g.name)
                 /\ get(items, g.name).show.kind = "percent"
                 /\ get(items, g.name).show.perc = Math_round10(MinFraction(cachedModels, M))
                 /\ get(items, g.name).show.worst = cachedModels[FirstWorst(cachedModels, M)]

\* fractions 0.9, 0.15, 0.5 in one group: 15% shown, from the second record
C15_Witness ==
    /\ cachedModels = <<ModelReset(FlashLabel, 900, 1), ModelReset(FlashLabel, 150, 2),
                        ModelReset(FlashLabel, 500, 3)>>
    /\ has(items, "Flash")
    /\ get(items, "Flash").show.kind = "percent"
    /\ get(items, "Flash").show.perc = 15
    /\ get(items, "Flash").show.worst = ModelReset(FlashLabel, 150, 2)
    /\ config.groups = <<ProGroup, FlashGroup>>

\* the matching records of a group that carry a fraction
WithFraction(models, M) == { k \in M : HasFraction(models[k]) }

\* C16: a record without remainingFraction counts as 100% in the status bar,
\* in the notification check and in the menu: a group whose matching records
\* all lack it shows 100% and is not warned about, its name staying out of
\* notifiedGroups; a group with some record that has a fraction shows the
\* least of the fractions present; the menu entry of such a record reads 100%.
C16_AbsentIsFull ==
    (cachedModels # <<>> /\ AllLabelled(cachedModels))
        => /\ \A g \in ConfiguredGroups :
                 LET M == MatchingNoCase(cachedModels, g)
                     P == WithFraction(cachedModels, M)
                 IN  M # {} =>
                       /\ get(items, g.name).show.kind = "percent"
                       /\ get(items, g.name).show.perc =
                             IF P = {} THEN 100
                             ELSE Math_round10(MinFraction(cachedModels, P))
                       /\ (P = {} /\ Checked) => (g.name \notin warned /\ g.name \notin notifiedGroups)
           /\ \A k \in 1..Len(cachedModels) :
                 ~HasFraction(cachedModels[k]) => menuPercent(cachedModels[k]) = 100

\* a check at threshold 50 on a group whose only record has no quotaInfo
C16_Witness ==
    /\ Checked
    /\ cachedModels = <<ModelNoQuota(FlashLabel), Model(ProLabel, 50)>>
    /\ config.groups = <<FlashGroup>>
    /\ lowQuotaThreshold = 50
    /\ get(items, "Flash").show.kind = "percent"
    /\ get(items, "Flash").show.perc = 100
    /\ notifiedGroups = {}

\* C17: in every state, the item of a configured group that matches none of
\* the current cachedModels shows no percentage.
C17_UnmatchedNoPercent ==
    AllLabelled(cachedModels)
        => \A g \in ConfiguredGroups :
              (MatchingNoCase(cachedModels, g) = {} /\ has(items, g.name))
                  => get(items, g.name).show.kind # "percent"

\* C18: whenever there are records, the items of the configured groups are
\* laid out in the order of the current configuration: every configured group
\* has an item, and of two groups the one configured first has the higher
\* priority (it stands further left).
C18_ConfigOrder ==
    (cachedModels # <<>> /\ AllLabelled(cachedModels))
        => \A i, j \in 1..Len(config.groups) :
              /\ has(items, config.groups[i].name)
              /\ i < j => get(items, config.groups[i].name).priority
                            > get(items, config.groups[j].name).priority

----------------------------------------------------------------------------
(* The process finder *)

\* C19: findLanguageServerPorts() never rejects, on either platform; when a
\* command failed, when the last command printed nothing, when no process
\* was found or no process identifier could be read, it resolves with the
\* empty list.
C19_NeverThrows ==
    /\ finder.pc # "rejected"
    /\ (finder.pc = "done" /\ (finder.failed \/ finder.out = <<>> \/ finder.pid = <<>>))
          => finder.result = <<>>

\* on Windows netstat failed after tasklist and wmic had found the process;
\* refresh() got the empty list
C19_Witness ==
    /\ finder.pc = "done"
    /\ finder.isWindows
    /\ finder.failed
    /\ finder.pid = W_pid
    /\ finder.result = <<>>
    /\ lastError = "Language server not found."
    /\ ~isRefreshing

\* C20: the list findLanguageServerPorts() resolves with holds every port at
\* most once, on both platforms, and all its elements carry the same token.
C20_DistinctPorts ==
    finder.pc = "done"
        => \A i, j \in 1..Len(finder.result) :
              /\ i # j => finder.result[i].port # finder.result[j].port
              /\ finder.result[i].csrf = finder.result[j].csrf

----------------------------------------------------------------------------
(* A success status with a body that lacks the list *)

\* C21 as claimed: when a candidate answers with a success status and a body
\* without the nested list, the refresh ends as a success: cachedModels is
\* empty, lastError is cleared and the deadline is one interval ahead.
C21_MissingPath ==
    (op = "json" /\ ~HasPath(received))
        => /\ Finished
           /\ cachedModels = <<>>
           /\ lastError = "undefined"
           /\ nextFetchTime = now + refreshInterval

\* C21 as amended: the same of a body that is an object (not null) without the
\* nested list; a null body is skipped like a candidate that failed.
C21_MissingPathInObject ==
    (op = "json" /\ ~HasPath(received) /\ received # NullBody)
        => /\ Finished
           /\ cachedModels = <<>>
           /\ lastError = "undefined"
           /\ nextFetchTime = now + refreshInterval

\* the second candidate answered without the list after an earlier refresh had
\* cached a list that warned
C21_Witness ==
    /\ op = "json"
    /\ received = NoPathBody
    /\ candidate = 2
    /\ Finished
    /\ cachedModels = <<>>
    /\ lastError = "undefined"
    /\ nextFetchTime = now + refreshInterval
    /\ now > 0
    /\ unrecovered # {}

----------------------------------------------------------------------------
(* The colour of a group's item *)

Colors == {"charts.green", "charts.yellow", "charts.red"}

\* C22: the item of every group with a matching record shows the rounded
\* percentage p of the worst fraction, between 0 and 100, in exactly one of the
\* three colours: green if and only if p >= 40, yellow if and only if
\* 20 <= p < 40, red if and only if p < 20.
C22_ColorBands ==
    \A k \in 1..Len(items) :
        items[k].show.kind = "percent" =>
            LET p == items[k].show.perc
                c == items[k].show.color
            IN  /\ p \in 0..100
                /\ c \in Colors
                /\ c = "charts.green" <=> p >= 40
                /\ c = "charts.yellow" <=> (20 <= p /\ p < 40)
                /\ c = "charts.red" <=> p < 20
                /\ cachedModels # <<>> =>
                      p * 10 \in (cachedModels[1].quotaInfo.remainingFraction - 4)
                                  ..(cachedModels[1].quotaInfo.remainingFraction + 5)

\* a fraction of 0.395 is shown as 40% in green
C22_Witness ==
    /\ cachedModels = <<Model(FlashLabel, 395)>>
    /\ has(items, "Flash")
    /\ get(items, "Flash").show.kind = "percent"
    /\ get(items, "Flash").show.perc = 40
    /\ get(items, "Flash").show.color = "charts.green"

----------------------------------------------------------------------------
(* The loop over the candidates *)

\* the step handled the answer of the candidate task t was waiting for
Answered(t) == tasks[t].pc \in {"fetch", "json"} /\ tasks'[t] # tasks[t]

\* the answer was a transport error or a status that is not a success
Refused(t) == tasks[t].pc = "fetch" /\ op' = "fetch" /\ issued' # "json"

\* the answer was a body that was read: the candidate succeeded
Succeeded(t) == tasks[t].pc = "json" /\ op' = "json" /\ received' # NullBody

----------------------------------------------------------------------------
(* A manual refresh during a refresh *)

\* C24: a manualRefresh() request is never lost: no poll tick finds the engine
\* idle, with a request made since the last start of a fetch, and starts none.
C24_NeverLost ==
    (op = "poll" /\ ~isRefreshing) => ~history.requested

----------------------------------------------------------------------------
(* The "updated" event *)

\* C25: onDidUpdate fires at least once in every poll tick, whether the tick
\* starts a fetch, finds the deadline ahead or finds a refresh in flight, and
\* once when a refresh ends, whatever its outcome.
C25_AlwaysNotified ==
    /\ op = "poll" => fired >= 1
    /\ Finished => fired = 1

\* a tick while a refresh is in flight fired the event and started nothing
C25_Witness ==
    /\ op = "poll"
    /\ isRefreshing
    /\ issued = "none"
    /\ fired = 1
    /\ now >= nextFetchTime

----------------------------------------------------------------------------
(* The place of the notification check in refresh() *)

\* names of the configured groups that are low on the records cached now
LowNow ==
    { g.name : g \in { h \in ConfiguredGroups :
                          /\ Matching(cachedModels, h) # {}
                          /\ WorstFraction(cachedModels, h) <= lowQuotaThreshold * 10 } }

\* C26: every refresh runs the notification check once, on the records and
\* with the lastError of its own outcome, before it ends: when a refresh has
\* ended, either the check threw on the records now cached, or notifiedGroups
\* is exactly the set of groups that are low on the records now cached (none
\* after a refresh that failed and emptied the cache), the warnings of the
\* step are among them, and lastError is the one of the outcome.
C26_CheckedOnOutcome ==
    Finished =>
        IF CheckThrowsOn(cachedModels)
        THEN Threw /\ warned \subseteq GroupNames
        ELSE /\ notifiedGroups = LowNow
             /\ warned \subseteq LowNow
             /\ ~Threw
             /\ cachedModels # <<>> => lastError = "undefined"

\* a refresh that found no server emptied the set of a group warned about before
C26_Witness ==
    /\ Finished
    /\ lastError = "Language server not found."
    /\ cachedModels = <<>>
    /\ notifiedGroups = {}
    /\ unrecovered # {}

----------------------------------------------------------------------------
(* The pause between two automatic refreshes *)

\* the time since the last refresh ended
Gap == now - history.completedAt

\* the last step was a tick that started a fetch, and not the first one
PollStarts == op = "poll" /\ issued = "discovery" /\ history.completedAt >= 0

\* a tick found the engine idle and started nothing
PollWaits == op = "poll" /\ ~isRefreshing /\ history.completedAt >= 0

\* C27 as claimed: with the timer alone, a fetch starts no sooner than the
\* configured interval (the one in force when the refresh before it ended)
\* after that refresh ended, and no later than one tick period after that; no
\* tick passes at which the interval has run out and the engine stays idle.
C27_PollGap ==
    /\ PollStarts => (Gap >= history.interval /\ Gap <= history.interval + FAST_TIMER)
    /\ PollWaits => Gap < history.interval

\* C27 as amended: the same with the delay the refresh before set when it
\* ended: the interval in force at that moment, or 30 s if it ended in the
\* catch block, whatever the interval.
C27_PollGapByOutcome ==
    LET delay == IF history.threw THEN RETRY_DELAY ELSE history.interval IN
    /\ PollStarts => (Gap >= delay /\ Gap <= delay + FAST_TIMER)
    /\ PollWaits => Gap < delay

\* under an interval of 1 s the fetch after a refresh that threw started 30 s
\* or more after it
C27_Witness ==
    /\ PollStarts
    /\ history.threw
    /\ history.interval = UnitsPerSecond
    /\ refreshInterval = UnitsPerSecond
    /\ Gap > RETRY_DELAY

----------------------------------------------------------------------------
(* Error and data *)

\* C28: whenever the engine is idle after a refresh, lastError and a
\* non-empty cachedModels exclude each other: an error stands only over an
\* empty cache, and records are cached only without an error.
C28_ErrorOrData ==
    (~isRefreshing /\ history.completedAt >= 0)
        => /\ lastError # "undefined" => cachedModels = <<>>
           /\ cachedModels # <<>> => lastError = "undefined"

----------------------------------------------------------------------------
(* The keys of the item map *)

Keys == { items[k].name : k \in 1..Len(items) }

\* C29: the "Server Off" item and items of groups are never in the map
\* together, and whenever there are records the keys of the map are exactly
\* the names of the configured groups, one item each.
C29_KeysAreGroups ==
    /\ OFF_KEY \in Keys => Keys = {OFF_KEY}
    /\ cachedModels # <<>> =>
          /\ Keys = { g.name : g \in ConfiguredGroups }
          /\ Len(items) = Cardinality(Keys)

----------------------------------------------------------------------------
(* The first tick *)

\* the last step was the first tick of the timer
FirstTick == op = "poll" /\ now = FAST_TIMER

\* no refresh has ended yet
NoneCompleted == history.completedAt < 0

----------------------------------------------------------------------------
(* A change of the settings *)

\* C32: updateConfig() takes the new interval and threshold and leaves
\* nextFetchTime, cachedModels, lastError, isRefreshing and notifiedGroups as
\* they were; the deadline moves only when a refresh ends, and a refresh that
\* ends outside the catch block sets it to the interval then in force.
C32_ConfigFrame ==
    [][/\ op' = "updateConfig" =>
            /\ nextFetchTime' = nextFetchTime
            /\ cachedModels' = cachedModels
            /\ lastError' = lastError
            /\ isRefreshing' = isRefreshing
            /\ notifiedGroups' = notifiedGroups
            /\ refreshInterval' = config'.refreshInterval * UnitsPerSecond
            /\ lowQuotaThreshold' = config'.lowQuotaThreshold
       /\ (isRefreshing /\ ~isRefreshing' /\ lastError' # "TypeError") =>
            nextFetchTime' = now' + refreshInterval'
      ]_vars

\* the interval went from 1 s to 2 s during the countdown: the deadline is
\* still the one counted with 1 s
C32_Witness ==
    /\ op = "updateConfig"
    /\ ~isRefreshing
    /\ refreshInterval = 2 * UnitsPerSecond
    /\ nextFetchTime = now + 1
    /\ now = FAST_TIMER + 1
    /\ cachedModels # <<>>
    /\ notifiedGroups # {}

----------------------------------------------------------------------------
(* The countdown *)

\* whole seconds until the deadline, none once it has passed
WholeSecondsAhead ==
    IF nextFetchTime > now
    THEN CHOOSE n \in 0..(nextFetchTime - now) :
             n * UnitsPerSecond <= nextFetchTime - now
                 /\ nextFetchTime - now < (n + 1) * UnitsPerSecond
    ELSE 0

\* C33: getRefreshStatus() returns "Refreshing..." exactly when isRefreshing
\* is true; otherwise it tells the whole seconds left until the deadline, 0
\* once the deadline has passed, as minutes and a two-digit seconds field:
\* neither is negative, the seconds are in 0..59 and minutes * 60 + seconds is
\* the number of seconds left.
C33_Countdown ==
    LET status == getRefreshStatus IN
    /\ status.text = "Refreshing..." <=> isRefreshing
    /\ ~isRefreshing =>
          /\ status.text = "Next check in: "
          /\ status.minutes >= 0
          /\ Len(status.seconds) = 2
          /\ \A i \in 1..2 : status.seconds[i] \in 0..9
          /\ 10 * status.seconds[1] + status.seconds[2] \in 0..59
          /\ status.minutes * 60 + 10 * status.seconds[1] + status.seconds[2]
                = WholeSecondsAhead

\* 604.5 s before the deadline the status reads 10:04
C33_Witness ==
    /\ ~isRefreshing
    /\ nextFetchTime - now = 1209
    /\ getRefreshStatus.minutes = 10
    /\ getRefreshStatus.seconds = <<0, 4>>

----------------------------------------------------------------------------
(* Nicknames *)

\* C31: setting a nickname changes the entry of the chosen label only, also
\* when another change is still being written. An accepted input changes the
\* nickname of the chosen label and of no other: when its write takes effect, the chosen label has the text entered
\* (none if the text is empty) and every other label the nickname it had; a
\* dismissed input writes nothing; no step of the menu changes cachedModels,
\* lastError, nextFetchTime or notifiedGroups.
C31_OnlyChosen ==
    [][menu' # menu =>
         /\ UNCHANGED <<cachedModels, lastError, nextFetchTime, notifiedGroups>>
         /\ Len(menu'.writes) >= Len(menu.writes) => menu'.modelNicknames = menu.modelNicknames
         /\ Len(menu'.writes) < Len(menu.writes) =>
               LET write == Head(menu.writes) IN
               /\ menu'.modelNicknames[write.modelName] =
                     IF write.nick = "" THEN NoNickname ELSE write.nick
               /\ \A l \in NickLabels \ {write.modelName} :
                     menu'.modelNicknames[l] = menu.modelNicknames[l]
      ]_vars

====
